---- MODULE Spec2Model ----
(***************************************************************************)
(* A model of guidelight's Endeavor API client: the URL value type         *)
(* (guidelight/url.py) and the Client (guidelight/client.py) with its      *)
(* authentication pre-flight, its endpoint composition and its mapping of  *)
(* HTTP responses to results and errors.                                   *)
(*                                                                         *)
(* Python strings the code inspects character by character (paths, query   *)
(* strings, hosts) are sequences of one-character strings; Str renders     *)
(* them as TLA+ strings.  Strings the code only copies or concatenates     *)
(* (schemes, tokens, messages) are TLA+ strings.  An optional value        *)
(* (Python's None or a value) is the empty sequence or a one-element       *)
(* sequence.                                                               *)
(***************************************************************************)
EXTENDS Integers, Sequences, FiniteSets, TLC

VARIABLES
    _url,           \* Client._url: optional parsed base URL
    _host,          \* Client._host: optional cached host
    _prefix,        \* Client._prefix: optional cached scheme
    client_id,      \* Client.client_id (optional)
    client_secret,  \* Client.client_secret (optional)
    _creds,         \* Client._creds: optional Credentials
    pc,             \* where the running verb call is: idle, exchange, request
    call,           \* optional arguments of the current (or last) verb call
    creds0,         \* the credentials slot as the current call found it
    wire,           \* requests the current call handed to the transport
    xrep,           \* optional response to the current call's exchange
    rep,            \* optional response last passed to handle for the call
    outcome,        \* optional result of the last finished call (or handle)
    base,           \* URL model: the receiver of resolve
    rargs,          \* URL model: optional arguments of the last resolve
    resolved        \* URL model: optional URL returned by the last resolve

vars == <<_url, _host, _prefix, client_id, client_secret, _creds, pc, call,
          creds0, wire, xrep, rep, outcome, base, rargs, resolved>>

clientVars == <<_url, _host, _prefix, client_id, client_secret, _creds, pc,
                call, creds0, wire, xrep, rep, outcome>>

urlVars == <<base, rargs, resolved>>

(***************************************************************************)
(* Bounds of the model.                                                    *)
(***************************************************************************)
MaxPathLen == 2     \* characters of a receiver's path
MaxSegs == 3        \* segments passed to one resolve
MaxFields == 2      \* '&'-separated fields of a receiver's query string
MaxLabels == 4      \* '.'-separated labels of a host name
MaxCallSegs == 2    \* endpoint segments passed to one verb call

(***************************************************************************)
(* Optional values and character strings.                                  *)
(***************************************************************************)
Nothing == <<>>
Some(x) == <<x>>
IsSome(o) == o # <<>>
The(o) == o[1]

Range(s) == {s[i] : i \in 1..Len(s)}

RECURSIVE Str(_)
Str(s) == IF s = <<>> THEN "" ELSE Head(s) \o Str(Tail(s))

\* All character strings over alphabet A of length at most n.
RECURSIVE StrsUpTo(_, _)
StrsUpTo(A, n) ==
    IF n = 0 THEN {<<>>}
    ELSE LET shorter == StrsUpTo(A, n - 1)
         IN  shorter \cup {Append(s, c) : s \in shorter, c \in A}

\* All sequences of elements of S of length at most n.
RECURSIVE SeqsUpTo(_, _)
SeqsUpTo(S, n) ==
    IF n = 0 THEN {<<>>}
    ELSE LET shorter == SeqsUpTo(S, n - 1)
         IN  shorter \cup {Append(s, x) : s \in shorter, x \in S}

StartsWith(s, p) == Len(s) >= Len(p) /\ SubSeq(s, 1, Len(p)) = p
EndsWith(s, p) ==
    Len(s) >= Len(p) /\ SubSeq(s, Len(s) - Len(p) + 1, Len(s)) = p

\* Index of the first occurrence of character c in s (c occurs in s).
IndexOf(s, c) == CHOOSE i \in 1..Len(s) :
                    s[i] = c /\ \A j \in 1..(i - 1) : s[j] # c

\* str.split(c): the fields between the occurrences of c.
RECURSIVE Split(_, _)
Split(s, c) ==
    IF c \notin Range(s) THEN <<s>>
    ELSE LET i == IndexOf(s, c)
         IN  <<SubSeq(s, 1, i - 1)>> \o Split(SubSeq(s, i + 1, Len(s)), c)

\* c.join(parts)
RECURSIVE JoinWith(_, _)
JoinWith(parts, c) ==
    IF parts = <<>> THEN <<>>
    ELSE IF Len(parts) = 1 THEN parts[1]
    ELSE parts[1] \o <<c>> \o JoinWith(Tail(parts), c)

(***************************************************************************)
(* guidelight/url.py: URL                                                  *)
(***************************************************************************)
URL(scheme, netloc, path, params, query, fragment) ==
    [scheme |-> scheme, netloc |-> netloc, path |-> path,
     params |-> params, query |-> query, fragment |-> fragment]

\* posixpath.join, one component: an absolute component replaces the path,
\* any other is appended after a '/' unless the path is empty or ends in one.
JoinStepFirstAbsoluteWins(path, b) ==
    IF StartsWith(b, <<"/">>) /\ ~StartsWith(path, <<"/">>) THEN b
    ELSE IF path = <<>> \/ EndsWith(path, <<"/">>) THEN path \o b
    ELSE path \o <<"/">> \o b

JoinStep(path, b) ==
    IF StartsWith(b, <<"/">>) THEN b
    ELSE IF path = <<>> \/ EndsWith(path, <<"/">>) THEN path \o b
    ELSE path \o <<"/">> \o b

RECURSIVE PosixJoin(_, _)
PosixJoin(path, segs) ==
    IF segs = <<>> THEN path
    ELSE PosixJoin(JoinStep(path, Head(segs)), Tail(segs))

\* urllib.parse.parse_qsl with its defaults (keep_blank_values=False,
\* strict_parsing=False, separator '&'): the (name, value) pairs of the
\* fields that have an '=' and a non-empty value.  (The alphabet of the model
\* holds no '+' or '%', on which unquoting is the identity.)
RECURSIVE QslOf(_)
QslOf(fields) ==
    IF fields = <<>> THEN <<>>
    ELSE LET f == Head(fields)
             rest == QslOf(Tail(fields))
         IN  IF f = <<>> \/ "=" \notin Range(f) THEN rest
             ELSE LET i == IndexOf(f, "=")
                      name == SubSeq(f, 1, i - 1)
                      value == SubSeq(f, i + 1, Len(f))
                  IN  IF value = <<>> THEN rest
                      ELSE <<[k |-> name, v |-> value]>> \o rest

parse_qsl(qs) == QslOf(Split(qs, "&"))

\* A dict is the sequence of its items, in insertion order, keys distinct.
DictKeys(d) == {d[i].k : i \in 1..Len(d)}
DictPos(d, key) == CHOOSE i \in 1..Len(d) : d[i].k = key
DictGet(d, key) == d[DictPos(d, key)].v
DictSet(d, key, val) ==
    IF key \in DictKeys(d)
    THEN [d EXCEPT ![DictPos(d, key)] = [k |-> key, v |-> val]]
    ELSE Append(d, [k |-> key, v |-> val])

\* dict.update(other): other's items in order, each set in place or appended.
RECURSIVE DictUpdate(_, _)
DictUpdate(d, other) ==
    IF other = <<>> THEN d
    ELSE DictUpdate(DictSet(d, Head(other).k, Head(other).v), Tail(other))

\* A dict value here is a list of strings, or one string (str = TRUE).
ListVal(items) == [str |-> FALSE, items |-> items]
StrVal(s) == [str |-> TRUE, items |-> <<s>>]

\* urllib.parse.parse_qs: a key's values are collected, in order, in a list
\* at the position of the key's first pair.
RECURSIVE QsOf(_, _)
QsOf(d, pairs) ==
    IF pairs = <<>> THEN d
    ELSE LET p == Head(pairs)
             val == IF p.k \in DictKeys(d)
                    THEN ListVal(Append(DictGet(d, p.k).items, p.v))
                    ELSE ListVal(<<p.v>>)
         IN  QsOf(DictSet(d, p.k, val), Tail(pairs))

parse_qs(qs) == QsOf(<<>>, parse_qsl(qs))

\* URL.parse_query
parse_query(u) == IF u.query # <<>> THEN parse_qs(u.query) ELSE <<>>

\* urllib.parse.urlencode(d, doseq=True): key=value for a string value, and
\* for every element of a list value; the pairs joined by '&'.
\* urllib.parse.quote_plus on the characters of the model: '=' is escaped,
\* letters and digits stand for themselves.
RECURSIVE quote_plus(_)
quote_plus(s) ==
    IF s = <<>> THEN <<>>
    ELSE (IF Head(s) = "=" THEN <<"%", "3", "D">> ELSE <<Head(s)>>)
         \o quote_plus(Tail(s))

RECURSIVE EncodePairs(_)
EncodePairs(d) ==
    IF d = <<>> THEN <<>>
    ELSE LET e == Head(d)
         IN  [i \in 1..Len(e.v.items) |->
                 quote_plus(e.k) \o <<"=">> \o quote_plus(e.v.items[i])]
             \o EncodePairs(Tail(d))

urlencode(d) == JoinWith(EncodePairs(d), "&")

\* URL.resolve(*endpoint, query=query); query is an optional dict.
resolve(u, endpoint, query) ==
    LET path == PosixJoin(u.path, endpoint)
        qs == DictUpdate(parse_query(u),
                         IF IsSome(query) THEN The(query) ELSE <<>>)
    IN  URL(u.scheme, u.netloc, path, u.params,
            IF qs # <<>> THEN urlencode(qs) ELSE <<>>, u.fragment)

\* The schemes of urllib.parse.uses_netloc that this model meets.
UsesNetloc == {"http", "https", "ftp"}

\* URL.__str__: urllib.parse.urlunparse of the six fields.
URLStr(u) ==
    LET p1 == IF u.params # "" THEN Str(u.path) \o ";" \o u.params
              ELSE Str(u.path)
        slashes == u.netloc # <<>>
                   \/ (u.scheme # "" /\ u.scheme \in UsesNetloc
                       /\ ~StartsWith(u.path, <<"/", "/">>))
        p2 == IF slashes
              THEN "//" \o Str(u.netloc)
                   \o (IF p1 # "" /\ ~StartsWith(u.path, <<"/">>)
                       THEN "/" \o p1 ELSE p1)
              ELSE p1
        p3 == IF u.scheme # "" THEN u.scheme \o ":" \o p2 ELSE p2
        p4 == IF u.query # <<>> THEN p3 \o "?" \o Str(u.query) ELSE p3
    IN  IF u.fragment # "" THEN p4 \o "#" \o u.fragment ELSE p4

(***************************************************************************)
(* Character strings of the code and of the model's inputs.                *)
(***************************************************************************)
S_localhost == <<"l", "o", "c", "a", "l", "h", "o", "s", "t">>
S_dot_local == <<".", "l", "o", "c", "a", "l">>
S_v1 == <<"v", "1">>
S_authenticate == <<"a", "u", "t", "h", "e", "n", "t", "i", "c", "a", "t", "e">>
S_reauthenticate == <<"r", "e", "a", "u", "t", "h", "e", "n", "t", "i", "c", "a", "t", "e">>
S_application_json == <<"a", "p", "p", "l", "i", "c", "a", "t", "i", "o", "n", "/", "j", "s", "o", "n">>
S_json_charset == <<"a", "p", "p", "l", "i", "c", "a", "t", "i", "o", "n", "/", "j", "s", "o", "n", ";", " ", "c", "h", "a", "r", "s", "e", "t", "=", "u", "t", "f", "-", "8">>
S_text_html == <<"t", "e", "x", "t", "/", "h", "t", "m", "l">>
S_None == <<"N", "o", "n", "e">>

(***************************************************************************)
(* guidelight/credentials.py is not among the sources: Credentials is      *)
(* modelled from the specification's data model (a pair of tokens, each    *)
(* usable iff it is present).  A token is an optional string.              *)
(***************************************************************************)
Credentials(access_token, refresh_token) ==
    [access_token |-> access_token, refresh_token |-> refresh_token]

Credentials_is_authenticated(c) == IsSome(c.access_token)

Credentials_is_refreshable(c) == IsSome(c.refresh_token)

(***************************************************************************)
(* guidelight/url.py: parse_content_type                                   *)
(***************************************************************************)
RECURSIVE Strip(_)
Strip(s) ==
    IF s # <<>> /\ Head(s) = " " THEN Strip(Tail(s))
    ELSE IF s # <<>> /\ s[Len(s)] = " " THEN Strip(SubSeq(s, 1, Len(s) - 1))
    ELSE s

\* The main type of a Content-Type header value (optional: the header may be
\* missing, and email.message.Message then holds the text of None): the text
\* before the first ';', stripped, in the case it was sent in.
parse_content_type(mime) ==
    IF IsSome(mime) THEN Strip(Split(The(mime), ";")[1]) ELSE S_None

(***************************************************************************)
(* guidelight/client.py: Client                                            *)
(***************************************************************************)
\* str() of an optional string, and of an optional character string.
PyStr(o) == IF IsSome(o) THEN The(o) ELSE "None"
PyStrChars(o) == IF IsSome(o) THEN Str(The(o)) ELSE "None"

\* The host of a parsed URL (the body of the host property).
HostOf(u) == IF u.netloc # <<>> THEN u.netloc ELSE Split(u.path, "/")[1]

\* Client.host: the value of _host after the property is read, which is
\* also what the property returns.
host(h, u) == IF h = Nothing /\ IsSome(u) THEN Some(HostOf(The(u))) ELSE h

\* Client.is_localhost, on the host h.
is_localhostWithPort(h) == h = S_localhost \/ EndsWith(h, S_dot_local)

is_localhost(h) ==
    LET name == IF ":" \in Range(h) THEN Split(h, ":")[1] ELSE h
    IN  name = S_localhost \/ EndsWith(name, S_dot_local)

\* Client.prefix, once a non-empty host is known.
PrefixOf(h) == IF is_localhost(h) THEN "http" ELSE "https"

\* Results of a call: a returned value or a raised error.
EmptyObj == [key \in {} |-> ""]
NoBody == [json |-> FALSE, obj |-> EmptyObj]
Return(kind, body) ==
    [raised |-> FALSE, kind |-> kind, text |-> "", body |-> body]
ReturnText(kind, text) ==
    [raised |-> FALSE, kind |-> kind, text |-> text, body |-> NoBody]
Raise(kind, message) ==
    [raised |-> TRUE, kind |-> kind, text |-> message, body |-> NoBody]

\* "\n  ".join(f"{e['field']}: {e['error']}" for e in errors)
RECURSIVE ErrorLines(_)
ErrorLines(errors) ==
    IF errors = <<>> THEN ""
    ELSE Head(errors).field \o ": " \o Head(errors).error
         \o (IF Len(errors) > 1 THEN "\n  " ELSE "") \o ErrorLines(Tail(errors))

\* The message of a 4xx response.
ClientMessage(r, h) ==
    LET generic == ToString(r.status) \o " response from " \o PyStrChars(h)
        m1 == IF r.body.json /\ "error" \in DOMAIN r.body.obj
              THEN r.body.obj.error ELSE generic
    IN  IF r.body.json /\ "errors" \in DOMAIN r.body.obj
        THEN m1 \o ":\n  " \o ErrorLines(r.body.obj.errors)
        ELSE m1

\* The message of a 5xx response.
ServerMessage(r, h) ==
    IF r.body.json /\ "error" \in DOMAIN r.body.obj
    THEN r.body.obj.error
    ELSE ToString(r.status) \o " response from " \o PyStrChars(h) \o "]"

\* Client.handle(rep) on a client whose _host is h and whose url is u: the
\* result, and _host as handle leaves it (the 4xx branch reads the host
\* property, the 5xx branch the _host field).  A body that is JSON is a JSON
\* object.
handleClientErrorFirst(r, h, u) ==
    IF r.status >= 400 /\ r.status < 500
    THEN [out |-> Raise(IF r.status = 404 THEN "NotFound" ELSE "ClientError",
                        ClientMessage(r, host(h, u))),
          host |-> host(h, u)]
    ELSE IF r.status = 204 THEN [out |-> Return("None", NoBody), host |-> h]
    ELSE IF r.status >= 200 /\ r.status < 300
    THEN [out |-> IF parse_content_type(r.ctype) = S_application_json
                  THEN IF r.body.json THEN Return("json", r.body)
                       ELSE Raise("JSONDecodeError", "")
                  ELSE Return("bytes", r.body),
          host |-> h]
    ELSE IF r.status >= 500 /\ r.status < 600
    THEN [out |-> Raise("ServerError", ServerMessage(r, h)), host |-> h]
    ELSE [out |-> Raise("ValueError",
                        "unhandled status code " \o ToString(r.status)),
          host |-> h]

handle(r, h, u) ==
    IF r.status = 401 \/ r.status = 403
    THEN [out |-> Raise("AuthenticationError", "authentication failed"),
          host |-> h]
    ELSE IF r.status = 204 THEN [out |-> Return("None", NoBody), host |-> h]
    ELSE IF r.status >= 200 /\ r.status < 300
    THEN [out |-> IF parse_content_type(r.ctype) = S_application_json
                  THEN IF r.body.json THEN Return("json", r.body)
                       ELSE Raise("JSONDecodeError", "")
                  ELSE Return("bytes", r.body),
          host |-> h]
    ELSE IF r.status >= 400 /\ r.status < 500
    THEN [out |-> Raise(IF r.status = 404 THEN "NotFound" ELSE "ClientError",
                        ClientMessage(r, host(h, u))),
          host |-> host(h, u)]
    ELSE IF r.status >= 500 /\ r.status < 600
    THEN [out |-> Raise("ServerError", ServerMessage(r, h)), host |-> h]
    ELSE [out |-> Raise("ValueError",
                        "unhandled status code " \o ToString(r.status)),
          host |-> h]

\* Client.is_authenticated, Client.is_refreshable on the credentials slot.
is_authenticated(creds) ==
    IsSome(creds) /\ Credentials_is_authenticated(The(creds))

is_refreshable(creds) ==
    IsSome(creds) /\ Credentials_is_refreshable(The(creds))

\* Client._make_endpoint
_make_endpointNoRoot(u, endpoint, query) ==
    resolve(u, <<S_v1>> \o endpoint, query)

_make_endpoint(u, endpoint, query) ==
    resolve(u, <<<<"/">>, S_v1>> \o endpoint, query)

\* Client._authentication_headers: the exchange it makes for a slot.
ExchangeAlwaysAuthenticate(creds) ==
    IF is_authenticated(creds) THEN "none" ELSE "authenticate"

ExchangeFor(creds) ==
    IF is_authenticated(creds) THEN "none"
    ELSE IF is_refreshable(creds) THEN "reauthenticate"
    ELSE "authenticate"

\* Client._authentication_headers: the header it returns for credentials.
AuthorizationOfRefresh(c) == "Bearer " \o PyStr(c.refresh_token)

AuthorizationOf(c) == "Bearer " \o PyStr(c.access_token)

\* Client._authenticate's precondition on the API key.
HasApiKeyIdOnly(id, secret) == IsSome(id)

HasApiKey(id, secret) == IsSome(id) /\ IsSome(secret)

\* What a request carries.  The fixed default headers and the timeout go
\* with every request and are left out.
NoJson == [kind |-> "none", a |-> "", b |-> ""]
DataJson == [kind |-> "data", a |-> "", b |-> ""]
ApiKeyJson(id, secret) == [kind |-> "apikey", a |-> id, b |-> secret]
RefreshJson(token) == [kind |-> "refresh", a |-> token, b |-> ""]

Request(method, u, authorization, json) ==
    [method |-> method, url |-> URLStr(u), path |-> u.path,
     authorization |-> authorization, json |-> json]

\* The request of get/post/put/delete itself, after the pre-flight.
OriginalRequest(c, u, creds) ==
    Request(c.verb, _make_endpoint(u, c.endpoint, c.query),
            IF c.require_authentication
            THEN Some(AuthorizationOf(The(creds))) ELSE Nothing,
            IF c.verb \in {"POST", "PUT"} THEN DataJson ELSE NoJson)

\* The request of _authenticate and of _reauthenticate: a post that requires
\* no authentication.
ExchangeRequest(kind, u, creds, id, secret) ==
    IF kind = "reauthenticate"
    THEN Request("POST", _make_endpoint(u, <<S_reauthenticate>>, Nothing),
                 Nothing, RefreshJson(PyStr(The(creds).refresh_token)))
    ELSE Request("POST", _make_endpoint(u, <<S_authenticate>>, Nothing),
                 Nothing, ApiKeyJson(PyStr(id), PyStr(secret)))

NoURLModel ==
    /\ base = URL("", <<>>, <<>>, "", <<>>, "")
    /\ rargs = Nothing
    /\ resolved = Nothing

\* Client(url, client_id, client_secret): the state after construction.  The
\* constructor reads the prefix property, which caches the host and the
\* scheme and raises when the URL holds no host.
Construct(u, id, secret) ==
    /\ HostOf(u) # <<>>
    /\ _url = Some(u)
    /\ _host = Some(HostOf(u))
    /\ _prefix = Some(PrefixOf(HostOf(u)))
    /\ client_id = id
    /\ client_secret = secret
    /\ _creds = Nothing
    /\ pc = "idle" /\ call = Nothing /\ creds0 = Nothing /\ wire = <<>>
    /\ xrep = Nothing /\ rep = Nothing /\ outcome = Nothing

\* get / post / put / delete, up to the first request handed to the
\* transport: _pre_flight, with _authentication_headers when authentication
\* is required, then either the exchange's post or the request itself.
Call(verb, endpoint, query, require_authentication) ==
    LET c == [verb |-> verb, endpoint |-> endpoint, query |-> query,
              require_authentication |-> require_authentication]
        kind == IF require_authentication THEN ExchangeFor(_creds) ELSE "none"
        fails == \/ kind = "authenticate" /\ ~HasApiKey(client_id, client_secret)
                 \/ kind = "reauthenticate" /\ ~IsSome(The(_creds).refresh_token)
    IN  /\ pc = "idle"
        /\ call' = Some(c)
        /\ creds0' = _creds
        /\ xrep' = Nothing
        /\ rep' = Nothing
        /\ IF ~IsSome(_url)
           THEN /\ outcome' = Some(Raise("ClientError",
                                  "no Endeavor URL has been configured"))
                /\ wire' = <<>>
                /\ pc' = "idle"
           ELSE IF fails
           THEN /\ outcome' = Some(Raise("AuthenticationError",
                                  IF kind = "authenticate"
                                  THEN "no client id or secret specified"
                                  ELSE "no refresh token available"))
                /\ wire' = <<>>
                /\ pc' = "idle"
           ELSE IF kind # "none"
           THEN /\ outcome' = Nothing
                /\ wire' = <<ExchangeRequest(kind, The(_url), _creds,
                                             client_id, client_secret)>>
                /\ pc' = "exchange"
           ELSE /\ outcome' = Nothing
                /\ wire' = <<OriginalRequest(c, The(_url), _creds)>>
                /\ pc' = "request"
        /\ UNCHANGED <<_url, _host, _prefix, client_id, client_secret, _creds>>
        /\ UNCHANGED urlVars

\* An exchange that empties the credentials slot when it fails.
ExchangeResponseClearingSlot(r) ==
    LET h == handle(r, _host, _url)
        tokens == h.out.body.obj
        created == Credentials(tokens.access_token, tokens.refresh_token)
    IN  /\ pc = "exchange"
        /\ xrep' = Some(r)
        /\ _host' = h.host
        /\ IF h.out.raised
           THEN /\ outcome' = Some(h.out)
                /\ pc' = "idle"
                /\ _creds' = Nothing
                /\ UNCHANGED wire
           ELSE IF h.out.kind # "json"
           THEN /\ outcome' = Some(Raise("TypeError", "not subscriptable"))
                /\ pc' = "idle"
                /\ _creds' = Nothing
                /\ UNCHANGED wire
           ELSE IF ~({"access_token", "refresh_token"} \subseteq DOMAIN tokens)
           THEN /\ outcome' = Some(Raise("KeyError",
                                  IF "access_token" \in DOMAIN tokens
                                  THEN "refresh_token" ELSE "access_token"))
                /\ pc' = "idle"
                /\ _creds' = Nothing
                /\ UNCHANGED wire
           ELSE /\ _creds' = Some(created)
                /\ wire' = Append(wire, OriginalRequest(The(call), The(_url),
                                                        Some(created)))
                /\ outcome' = Nothing
                /\ pc' = "request"
        /\ UNCHANGED <<_url, _prefix, client_id, client_secret, call, creds0,
                       rep>>
        /\ UNCHANGED urlVars

\* The transport answers the exchange's post with r: handle(r), then
\* Credentials(rep["access_token"], rep["refresh_token"]) is stored and the
\* request itself is sent with its bearer header.
ExchangeResponse(r) ==
    LET h == handle(r, _host, _url)
        tokens == h.out.body.obj
        created == Credentials(tokens.access_token, tokens.refresh_token)
    IN  /\ pc = "exchange"
        /\ xrep' = Some(r)
        /\ _host' = h.host
        /\ IF h.out.raised
           THEN /\ outcome' = Some(h.out)
                /\ pc' = "idle"
                /\ UNCHANGED <<_creds, wire>>
           ELSE IF h.out.kind # "json"
           THEN /\ outcome' = Some(Raise("TypeError", "not subscriptable"))
                /\ pc' = "idle"
                /\ UNCHANGED <<_creds, wire>>
           ELSE IF ~({"access_token", "refresh_token"} \subseteq DOMAIN tokens)
           THEN /\ outcome' = Some(Raise("KeyError",
                                  IF "access_token" \in DOMAIN tokens
                                  THEN "refresh_token" ELSE "access_token"))
                /\ pc' = "idle"
                /\ UNCHANGED <<_creds, wire>>
           ELSE /\ _creds' = Some(created)
                /\ wire' = Append(wire, OriginalRequest(The(call), The(_url),
                                                        Some(created)))
                /\ outcome' = Nothing
                /\ pc' = "request"
        /\ UNCHANGED <<_url, _prefix, client_id, client_secret, call, creds0,
                       rep>>
        /\ UNCHANGED urlVars

\* The transport answers the request itself with r: the call ends with
\* handle(r).
AnswerRetryingRejected(r) ==
    LET h == handle(r, _host, _url)
        again == r.status \in {401, 403} /\ Len(wire) < 3
    IN  /\ pc = "request"
        /\ rep' = Some(r)
        /\ _host' = h.host
        /\ outcome' = IF again THEN Nothing ELSE Some(h.out)
        /\ pc' = IF again THEN "request" ELSE "idle"
        /\ wire' = IF again THEN Append(wire, wire[Len(wire)]) ELSE wire
        /\ UNCHANGED <<_url, _prefix, client_id, client_secret, _creds, call,
                       creds0, xrep>>
        /\ UNCHANGED urlVars

Answer(r) ==
    LET h == handle(r, _host, _url)
    IN  /\ pc = "request"
        /\ rep' = Some(r)
        /\ _host' = h.host
        /\ outcome' = Some(h.out)
        /\ pc' = "idle"
        /\ UNCHANGED <<_url, _prefix, client_id, client_secret, _creds, call,
                       creds0, wire, xrep>>
        /\ UNCHANGED urlVars

\* client.handle(r), called on a response directly.
Handle(r) ==
    LET h == handle(r, _host, _url)
    IN  /\ pc = "idle"
        /\ call' = Nothing
        /\ creds0' = _creds
        /\ wire' = <<>>
        /\ xrep' = Nothing
        /\ rep' = Some(r)
        /\ _host' = h.host
        /\ outcome' = Some(h.out)
        /\ UNCHANGED <<_url, _prefix, client_id, client_secret, _creds, pc>>
        /\ UNCHANGED urlVars

\* client.url = value (the url setter); value is an optional parsed URL.
SetUrl(value) ==
    /\ pc = "idle"
    /\ _host' = Nothing
    /\ _prefix' = Nothing
    /\ _url' = value
    /\ call' = Nothing
    /\ wire' = <<>>
    /\ xrep' = Nothing
    /\ rep' = Nothing
    /\ outcome' = Nothing
    /\ UNCHANGED <<client_id, client_secret, _creds, creds0, pc>>
    /\ UNCHANGED urlVars

\* client.prefix (the prefix property).
GetPrefix ==
    LET h == host(_host, _url)
    IN  /\ pc = "idle"
        /\ call' = Nothing
        /\ wire' = <<>>
        /\ xrep' = Nothing
        /\ rep' = Nothing
        /\ IF IsSome(_prefix)
           THEN /\ outcome' = Some(ReturnText("prefix", The(_prefix)))
                /\ UNCHANGED <<_host, _prefix>>
           ELSE IF ~IsSome(h) \/ The(h) = <<>>
           THEN /\ outcome' = Some(Raise("ValueError",
                                  "cannot compute prefix without host"))
                /\ _host' = h
                /\ UNCHANGED _prefix
           ELSE /\ outcome' = Some(ReturnText("prefix", PrefixOf(The(h))))
                /\ _host' = h
                /\ _prefix' = Some(PrefixOf(The(h)))
        /\ UNCHANGED <<_url, client_id, client_secret, _creds, creds0, pc>>
        /\ UNCHANGED urlVars

(***************************************************************************)
(* Inputs of the client model: base URLs, responses, call arguments.       *)
(***************************************************************************)
PathChars == {"/", "a"}
QueryChars == {"a", "b", "=", "1"}

\* Path segments: the strings of at most two characters.
SegStrings == StrsUpTo(PathChars, 2)

U_localhost == URL("http", <<"l", "o", "c", "a", "l", "h", "o", "s", "t", ":", "8", "0", "0", "0">>, <<>>, "", <<>>, "")
U_api == URL("https", <<"e", "x", "a", "m", "p", "l", "e", ".", "c", "o", "m">>, <<"/", "a", "p", "i">>, "", <<>>, "")
\* "example.com/x" parses to a URL without scheme and netloc.
U_bare == URL("", <<>>, <<"e", "x", "a", "m", "p", "l", "e", ".", "c", "o", "m", "/", "x">>, "", <<>>, "")
\* "http://127.0.0.1:8000": a loopback address, not a local name.
U_loopback == URL("http", <<"1", "2", "7", ".", "0", ".", "0", ".", "1", ":", "8", "0", "0", "0">>, <<>>, "", <<>>, "")

Verbs == {"GET", "POST", "PUT", "DELETE"}

Response(status, ctype, body) ==
    [status |-> status, ctype |-> ctype, body |-> body]
Raw == NoBody
Json(obj) == [json |-> TRUE, obj |-> obj]

ContentTypes == {Nothing, Some(S_application_json), Some(S_json_charset),
                 Some(S_text_html)}

OneError == <<[field |-> "name", error |-> "required"]>>
Bodies == {Raw, Json(EmptyObj), Json([error |-> "boom"]),
           Json([errors |-> OneError]),
           Json([error |-> "boom", errors |-> OneError])}

Statuses == {-1, 0, 100, 199, 200, 201, 204, 299, 300, 399, 400, 401, 403,
             404, 418, 499, 500, 503, 599, 600}

AllResponses ==
    {Response(st, ct, b) : st \in Statuses, ct \in ContentTypes, b \in Bodies}

Tokens(a, r) == Json([access_token |-> a, refresh_token |-> r])

\* Answers to an authenticate or reauthenticate exchange.
ExchangeResponses ==
    {Response(200, Some(S_application_json), Tokens(a, r)) :
        a \in {Nothing, Some("access"), Some("access2")},
        r \in {Nothing, Some("refresh")}}
    \cup {Response(200, Some(S_application_json), Json(EmptyObj)),
          Response(200, Some(S_text_html), Raw),
          Response(204, Nothing, Raw),
          Response(401, Some(S_application_json), Json([error |-> "boom"])),
          Response(500, Some(S_text_html), Raw)}

\* Answers to the request of a verb call.
CallResponses ==
    {Response(200, Some(S_json_charset), Json(EmptyObj)),
     Response(204, Nothing, Raw),
     Response(404, Some(S_text_html), Raw),
     Response(500, Some(S_text_html), Raw)}
    \cup {Response(st, ct, b) :
            st \in {401, 403},
            ct \in {Nothing, Some(S_application_json), Some(S_text_html)},
            b \in {Raw, Json([error |-> "boom"])}}

(***************************************************************************)
(* Spec: the authentication lifecycle over any sequence of verb calls.     *)
(***************************************************************************)
Init ==
    /\ NoURLModel
    /\ \E u \in {U_localhost, U_api},
          id \in {Nothing, Some("id")},
          secret \in {Nothing, Some("secret")} :
          Construct(u, id, secret)

VerbCall ==
    \E verb \in Verbs, endpoint \in {<<<<"a">>>>, <<<<"a">>, <<"b">>>>},
       require_authentication \in BOOLEAN :
        Call(verb, endpoint, Nothing, require_authentication)

ExchangeAnswered == \E r \in ExchangeResponses : ExchangeResponse(r)

CallAnswered == \E r \in CallResponses : Answer(r)

Next == VerbCall \/ ExchangeAnswered \/ CallAnswered

Spec == Init /\ [][Next]_vars

(***************************************************************************)
(* SpecHandle: handle applied to responses of every kind, on a client      *)
(* whose url may be reassigned.                                            *)
(***************************************************************************)
InitHandle ==
    /\ NoURLModel
    /\ \E u \in {U_localhost, U_api, U_bare} :
          Construct(u, Some("id"), Some("secret"))

HandleAny == \E r \in AllResponses : Handle(r)

Reassign == \E u \in {U_localhost, U_api, U_bare} : SetUrl(Some(u))

NextHandle == HandleAny \/ Reassign

SpecHandle == InitHandle /\ [][NextHandle]_vars

(***************************************************************************)
(* SpecPrefix: the scheme derived for hosts of every shape.                *)
(***************************************************************************)
HostLabels == {S_localhost, <<"l", "o", "c", "a", "l">>, <<"e", "x", "a", "m", "p", "l", "e">>, <<"c", "o", "m">>, <<"1", "2", "7">>, <<"0">>, <<"1">>}
\* Host names of at most n labels.
HostNames(n) == {JoinWith(ls, ".") : ls \in SeqsUpTo(HostLabels, n) \ {<<>>}}
Ports == {<<>>, <<":", "8", "0", "0", "0">>}

InitPrefix ==
    /\ NoURLModel
    /\ \E name \in HostNames(MaxLabels), port \in Ports :
          Construct(URL("", name \o port, <<>>, "", <<>>, ""),
                    Some("id"), Some("secret"))

ReassignPrefix ==
    \E v \in {Nothing, Some(U_localhost), Some(U_api), Some(U_bare),
              Some(U_loopback)} :
        SetUrl(v)

NextPrefix == ReassignPrefix \/ GetPrefix

SpecPrefix == InitPrefix /\ [][NextPrefix]_vars

(***************************************************************************)
(* SpecEndpoint: one verb call on a base URL and segments of every shape.  *)
(***************************************************************************)
\* The path of a URL parsed with an authority is empty or begins with '/'.
BasePaths == {p \in StrsUpTo(PathChars, MaxPathLen) : p = <<>> \/ p[1] = "/"}

InitEndpoint ==
    /\ NoURLModel
    /\ \E path \in BasePaths :
          Construct(URL("https", <<"e", "x", "a", "m", "p", "l", "e", ".", "c", "o", "m">>, path, "", <<>>, ""),
                    Some("id"), Some("secret"))

EndpointCall ==
    /\ call = Nothing
    /\ \E verb \in Verbs,
          endpoint \in SeqsUpTo(SegStrings, MaxCallSegs),
          require_authentication \in BOOLEAN :
          Call(verb, endpoint, Nothing, require_authentication)

\* The two answers of an endpoint run: the exchange grants tokens and the
\* request is answered with an empty JSON object.
TokensGranted ==
    Response(200, Some(S_application_json),
             Tokens(Some("access"), Some("refresh")))
EmptyObjectAnswer == Response(200, Some(S_application_json), Json(EmptyObj))

EndpointExchangeAnswered == ExchangeResponse(TokensGranted)

EndpointAnswered == Answer(EmptyObjectAnswer)

NextEndpoint == EndpointCall \/ EndpointExchangeAnswered \/ EndpointAnswered

SpecEndpoint == InitEndpoint /\ [][NextEndpoint]_vars

(***************************************************************************)
(* The URL model: resolve applied to a receiver drawn from a bounded set.  *)
(***************************************************************************)
FieldStrings == StrsUpTo(QueryChars, 3)

\* Query strings: up to n fields joined by '&'.
QueryStrings(n) == {JoinWith(fs, "&") : fs \in SeqsUpTo(FieldStrings, n)}

\* Query mappings passed to resolve: dicts of at most two items.
QueryValues == {StrVal(<<"2">>), ListVal(<<<<"2">>, <<"1">>>>)}
QueryMaps ==
    {<<>>}
    \cup {<<[k |-> <<x>>, v |-> v]>> : x \in {"a", "b"}, v \in QueryValues}
    \cup {<<[k |-> <<xy[1]>>, v |-> v], [k |-> <<xy[2]>>, v |-> w]>> :
            xy \in {<<"a", "b">>, <<"b", "a">>},
            v \in QueryValues, w \in QueryValues}

NoClient ==
    /\ _url = Nothing /\ _host = Nothing /\ _prefix = Nothing
    /\ client_id = Nothing /\ client_secret = Nothing /\ _creds = Nothing
    /\ pc = "idle" /\ call = Nothing /\ creds0 = Nothing /\ wire = <<>>
    /\ xrep = Nothing /\ rep = Nothing /\ outcome = Nothing

\* base.resolve(*endpoint, query=query), applied once to the receiver drawn by
\* Init: returns a new URL; no field of the receiver is assigned.
Resolve(endpoint, query) ==
    /\ rargs = Nothing
    /\ resolved' = Some(resolve(base, endpoint, query))
    /\ rargs' = Some([self |-> base, endpoint |-> endpoint, query |-> query])
    /\ UNCHANGED base
    /\ UNCHANGED clientVars

InitPath ==
    /\ NoClient
    /\ \E path \in StrsUpTo(PathChars, MaxPathLen),
          rest \in {<<"", "">>, <<"p", "f">>} :
          base = URL("https", <<"h">>, path, rest[1], <<>>, rest[2])
    /\ rargs = Nothing
    /\ resolved = Nothing

ResolvePath ==
    \E endpoint \in SeqsUpTo(SegStrings, MaxSegs) : Resolve(endpoint, Nothing)

NextPath == ResolvePath

SpecPath == InitPath /\ [][NextPath]_vars

InitQuery ==
    /\ NoClient
    /\ \E query \in QueryStrings(MaxFields) :
          base = URL("https", <<"h">>, <<>>, "", query, "")
    /\ rargs = Nothing
    /\ resolved = Nothing

ResolveQuery ==
    \E query \in {Nothing} \cup {Some(m) : m \in QueryMaps} :
        Resolve(<<<<"a">>>>, query)

NextQuery == ResolveQuery

SpecQuery == InitQuery /\ [][NextQuery]_vars

(***************************************************************************)
(* C1, C2, C3, C10: the authentication pre-flight of a verb call.          *)
(***************************************************************************)
\* scheme://authority of the client's base URL.
Origin == The(_url).scheme \o "://" \o Str(The(_url).netloc)

IsExchange(q) == q.json.kind \in {"apikey", "refresh"}

\* The requests of the running (or last) call that are exchanges.
ExchangesSent == {i \in 1..Len(wire) : IsExchange(wire[i])}

\* The exchange was answered with a JSON object holding both tokens.
ExchangeSucceeded ==
    /\ IsSome(xrep)
    /\ The(xrep).status >= 200 /\ The(xrep).status < 300
    /\ The(xrep).status # 204
    /\ The(xrep).body.json
    /\ {"access_token", "refresh_token"} \subseteq DOMAIN The(xrep).body.obj

Authenticated(c) == IsSome(c) /\ IsSome(The(c).access_token)
Refreshable(c) == IsSome(c) /\ IsSome(The(c).refresh_token)

IsAuthenticateExchange(q) ==
    /\ q.method = "POST"
    /\ q.url = Origin \o "/v1/authenticate"
    /\ q.authorization = Nothing
    /\ q.json = ApiKeyJson(The(client_id), The(client_secret))

IsReauthenticateExchange(q, token) ==
    /\ q.method = "POST"
    /\ q.url = Origin \o "/v1/reauthenticate"
    /\ q.authorization = Nothing
    /\ q.json = RefreshJson(token)

\* C1: a client with a URL, client_id and client_secret that holds no
\* credentials sends, on a verb call that requires authentication, exactly
\* one POST to the authenticate endpoint; only after that exchange succeeded
\* does it send the request itself, once, with the header
\* Authorization: Bearer <the access_token the exchange returned>.
C1_FirstAuthenticatedCall ==
    (/\ IsSome(call) /\ The(call).require_authentication
     /\ creds0 = Nothing
     /\ IsSome(client_id) /\ IsSome(client_secret))
    =>  /\ Len(wire) \in {1, 2}
        /\ IsAuthenticateExchange(wire[1])
        /\ ExchangesSent = {1}
        /\ Len(wire) = 2 =>
              /\ ExchangeSucceeded
              /\ wire[2].method = The(call).verb
              /\ wire[2].authorization =
                     Some("Bearer " \o PyStr(The(xrep).body.obj.access_token))
        /\ Len(wire) = 1 => rep = Nothing
        /\ (ExchangeSucceeded /\ pc = "idle") => Len(wire) = 2

\* A first POST that authenticated with "access" and was then sent once.
C1_Witness ==
    /\ pc = "idle" /\ creds0 = Nothing
    /\ IsSome(call) /\ The(call).verb = "POST"
    /\ Len(wire) = 2
    /\ wire[2].authorization = Some("Bearer access")
    /\ IsSome(outcome) /\ ~The(outcome).raised

Rejected(r) == IsSome(r) /\ The(r).status \in {401, 403}

\* C2: a 401 or 403 answer ends the verb call with
\* AuthenticationError("authentication failed") and nothing more is handed
\* to the transport for that call: the request is not sent again and no
\* exchange follows it, whatever the answer's body and content type.
C2_RejectedNotRetried ==
    /\ Rejected(rep) =>
          /\ pc = "idle"
          /\ outcome = Some(Raise("AuthenticationError", "authentication failed"))
          /\ Len(wire) = (IF IsSome(xrep) THEN 2 ELSE 1)
          /\ ~IsExchange(wire[Len(wire)])
          /\ _creds = (IF ExchangeSucceeded
                       THEN Some(Credentials(The(xrep).body.obj.access_token,
                                             The(xrep).body.obj.refresh_token))
                       ELSE creds0)
    /\ Rejected(xrep) =>
          /\ pc = "idle"
          /\ outcome = Some(Raise("AuthenticationError", "authentication failed"))
          /\ Len(wire) = 1
          /\ rep = Nothing

\* A call by an authenticated client that was answered 403 with a JSON body.
C2_Witness ==
    /\ Rejected(rep) /\ The(rep).status = 403 /\ The(rep).body.json
    /\ Authenticated(creds0)
    /\ Len(wire) = 1

\* C3: a client with a URL that lacks client_id or client_secret and holds
\* no credentials fails a verb call that requires authentication with
\* AuthenticationError, and hands nothing to the transport before it.
C3_NoApiKey ==
    (/\ IsSome(call) /\ The(call).require_authentication
     /\ creds0 = Nothing /\ IsSome(_url)
     /\ (client_id = Nothing \/ client_secret = Nothing))
    =>  /\ pc = "idle"
        /\ wire = <<>>
        /\ xrep = Nothing /\ rep = Nothing
        /\ IsSome(outcome) /\ The(outcome).raised
        /\ The(outcome).kind = "AuthenticationError"
        /\ _creds = Nothing

\* A client with a client_id and no client_secret after such a call.
C3_Witness ==
    /\ IsSome(call) /\ The(call).require_authentication
    /\ IsSome(client_id) /\ client_secret = Nothing
    /\ IsSome(outcome) /\ The(outcome).kind = "AuthenticationError"
    /\ wire = <<>>

\* What the slot holds after an exchange that succeeded.
ExchangeResult ==
    Some(Credentials(The(xrep).body.obj.access_token,
                     The(xrep).body.obj.refresh_token))

\* The first two cases of C10: credentials with an access token are reused
\* and no exchange is made; credentials with only a refresh token make
\* exactly one reauthenticate exchange submitting it.
SlotReusedOrRefreshed ==
    /\ Authenticated(creds0) =>
          /\ ExchangesSent = {}
          /\ _creds = creds0
          /\ xrep = Nothing
    /\ (~Authenticated(creds0) /\ Refreshable(creds0)) =>
          /\ ExchangesSent = {1}
          /\ IsReauthenticateExchange(wire[1], The(The(creds0).refresh_token))
          /\ ExchangeSucceeded => _creds = ExchangeResult

\* C10 as claimed: on every verb call that requires authentication the
\* exchange follows from the credentials slot alone; with neither token in
\* the slot exactly one authenticate exchange submitting client_id and
\* client_secret is made and its result stored.
C10_ExchangeBySlotAlone ==
    (IsSome(call) /\ The(call).require_authentication) =>
        /\ SlotReusedOrRefreshed
        /\ (~Authenticated(creds0) /\ ~Refreshable(creds0)) =>
              /\ ExchangesSent = {1}
              /\ IsAuthenticateExchange(wire[1])
              /\ ExchangeSucceeded => _creds = ExchangeResult

\* C10, amended: as claimed when the slot holds a token; with neither token
\* in the slot, exactly one authenticate exchange submitting client_id and
\* client_secret is made and its result stored when both are set, and no
\* exchange is made (the call fails with AuthenticationError) when either
\* is missing.
C10_ExchangeBySlotAndApiKey ==
    (IsSome(call) /\ The(call).require_authentication) =>
        /\ SlotReusedOrRefreshed
        /\ (~Authenticated(creds0) /\ ~Refreshable(creds0)) =>
              IF IsSome(client_id) /\ IsSome(client_secret)
              THEN /\ ExchangesSent = {1}
                   /\ IsAuthenticateExchange(wire[1])
                   /\ ExchangeSucceeded => _creds = ExchangeResult
              ELSE /\ wire = <<>>
                   /\ _creds = creds0
                   /\ pc = "idle"
                   /\ outcome = Some(Raise("AuthenticationError",
                                           "no client id or secret specified"))

\* A call that found only a refresh token in the slot and replaced the slot
\* by the result of its reauthenticate exchange; and, before it, calls that
\* reused an access token after a 401.
C10_Witness ==
    /\ IsSome(call) /\ The(call).require_authentication
    /\ creds0 = Some(Credentials(Nothing, Some("refresh")))
    /\ Len(wire) = 2 /\ wire[1].json = RefreshJson("refresh")
    /\ _creds = Some(Credentials(Some("access2"), Nothing))
    /\ pc = "idle"

(***************************************************************************)
(* C8, C9: what resolve returns.                                           *)
(***************************************************************************)
MaxOf(S) == CHOOSE x \in S : \A y \in S : y <= x

\* p with the segments appended, '/'-separated: a '/' goes between two
\* parts unless what stands before it is empty or already ends in one.
RECURSIVE AppendedSlashSeparated(_, _)
AppendedSlashSeparated(p, segs) ==
    IF segs = <<>> THEN p
    ELSE AppendedSlashSeparated(
             IF p = <<>> \/ p[Len(p)] = "/" THEN p \o Head(segs)
             ELSE p \o <<"/">> \o Head(segs),
             Tail(segs))

AbsoluteAt(segs) == {i \in 1..Len(segs) : segs[i] # <<>> /\ segs[i][1] = "/"}

ClaimedResolvePath(path, segs) ==
    IF AbsoluteAt(segs) # {}
    THEN LET k == MaxOf(AbsoluteAt(segs))
         IN  AppendedSlashSeparated(segs[k], SubSeq(segs, k + 1, Len(segs)))
    ELSE AppendedSlashSeparated(path, segs)

\* C8: resolve(*segments) returns a URL whose path is the last absolute
\* segment followed by the segments after it when some segment is absolute
\* (the receiver's path and the earlier segments are discarded), and the
\* receiver's path with all segments appended, '/'-separated, otherwise;
\* scheme, authority, params and fragment are the receiver's, and the
\* receiver is as it was before the call.
C8_ResolvePath ==
    IsSome(resolved) =>
        LET a == The(rargs)
            r == The(resolved)
        IN  /\ r.path = ClaimedResolvePath(a.self.path, a.endpoint)
            /\ r.scheme = a.self.scheme
            /\ r.netloc = a.self.netloc
            /\ r.params = a.self.params
            /\ r.fragment = a.self.fragment
            /\ base = a.self

\* A resolve with a segment before an absolute segment and one after it, on
\* a receiver with a path, params and a fragment.
C8_Witness ==
    /\ IsSome(resolved)
    /\ The(rargs).self.path = <<"/", "a">>
    /\ The(rargs).self.params = "p"
    /\ The(rargs).endpoint = <<<<"a">>, <<"/", "a">>, <<"a">>>>
    /\ The(resolved).path = <<"/", "a", "/", "a">>

\* The keys and values a query string holds, field by field: the key is what
\* precedes a field's first '=', the value what follows it.
\* Percent-decoding, on the characters of the model.
RECURSIVE Unquoted(_)
Unquoted(s) ==
    IF s = <<>> THEN <<>>
    ELSE IF StartsWith(s, <<"%", "3", "D">>)
         THEN <<"=">> \o Unquoted(SubSeq(s, 4, Len(s)))
         ELSE <<Head(s)>> \o Unquoted(Tail(s))

RECURSIVE RawPairsOf(_)
RawPairsOf(fields) ==
    IF fields = <<>> THEN <<>>
    ELSE LET f == Head(fields)
             rest == RawPairsOf(Tail(fields))
         IN  IF f = <<>> THEN rest
             ELSE IF "=" \notin Range(f)
                  THEN <<[k |-> Unquoted(f), v |-> <<>>]>> \o rest
             ELSE <<[k |-> Unquoted(SubSeq(f, 1, IndexOf(f, "=") - 1)),
                     v |-> Unquoted(SubSeq(f, IndexOf(f, "=") + 1, Len(f)))]>>
                  \o rest

RawPairs(qs) == IF qs = <<>> THEN <<>> ELSE RawPairsOf(Split(qs, "&"))

RECURSIVE ValuesOf(_, _)
ValuesOf(pairs, key) ==
    IF pairs = <<>> THEN <<>>
    ELSE IF Head(pairs).k = key
         THEN <<Head(pairs).v>> \o ValuesOf(Tail(pairs), key)
         ELSE ValuesOf(Tail(pairs), key)

\* The distinct keys, each at its first occurrence.
RECURSIVE KeysInOrder(_, _)
KeysInOrder(pairs, seen) ==
    IF pairs = <<>> THEN <<>>
    ELSE IF Head(pairs).k \in seen THEN KeysInOrder(Tail(pairs), seen)
    ELSE <<Head(pairs).k>>
         \o KeysInOrder(Tail(pairs), seen \cup {Head(pairs).k})

RECURSIVE Without(_, _)
Without(keys, S) ==
    IF keys = <<>> THEN <<>>
    ELSE IF Head(keys) \in S THEN Without(Tail(keys), S)
    ELSE <<Head(keys)>> \o Without(Tail(keys), S)

\* C9: the resolved query holds every existing key the mapping does not
\* name, with its original values; a key in both takes the supplied
\* value(s); the keys stand in the order of the existing keys followed by
\* the mapping's new keys in the mapping's order.
C9_QueryMerge ==
    IsSome(resolved) =>
        LET a == The(rargs)
            m == IF IsSome(a.query) THEN The(a.query) ELSE <<>>
            E == RawPairs(a.self.query)
            R == RawPairs(The(resolved).query)
            existing == KeysInOrder(E, {})
            supplied == [i \in 1..Len(m) |-> m[i].k]
        IN  /\ \A key \in Range(existing) \ DictKeys(m) :
                   ValuesOf(R, key) = ValuesOf(E, key)
            /\ \A key \in DictKeys(m) : ValuesOf(R, key) = DictGet(m, key).items
            /\ KeysInOrder(R, {}) = existing \o Without(supplied, Range(existing))

\* The same merge for the existing keys that have a non-empty value: those
\* are the keys parse_qs keeps.
C9_MergeOfValuedKeys ==
    IsSome(resolved) =>
        LET a == The(rargs)
            m == IF IsSome(a.query) THEN The(a.query) ELSE <<>>
            E == SelectSeq(RawPairs(a.self.query), LAMBDA p : p.v # <<>>)
            R == RawPairs(The(resolved).query)
            existing == KeysInOrder(E, {})
            supplied == [i \in 1..Len(m) |-> m[i].k]
        IN  /\ \A key \in Range(existing) \ DictKeys(m) :
                   ValuesOf(R, key) = ValuesOf(E, key)
            /\ \A key \in DictKeys(m) : ValuesOf(R, key) = DictGet(m, key).items
            /\ KeysInOrder(R, {}) = existing \o Without(supplied, Range(existing))

\* A merge that overrides one existing key in place, keeps another and
\* appends a new one.
C9_Witness ==
    /\ IsSome(resolved)
    /\ The(rargs).self.query = <<"a", "=", "1", "&", "b", "=", "1">>
    /\ The(resolved).query = <<"a", "=", "2", "&", "b", "=", "1">>

(***************************************************************************)
(* C4, C5: handle's mapping of a response.                                 *)
(***************************************************************************)
\* The main type of a Content-Type header, read off the header's text.
MainTypeIsJson(ctype) ==
    IsSome(ctype)
    /\ \/ The(ctype) = S_application_json
       \/ StartsWith(The(ctype), S_application_json \o <<";">>)

\* The row of the response-mapping table a status code falls in.
TableKind(r) ==
    CASE r.status \in {401, 403} -> "AuthenticationError"
      [] r.status = 204 -> "None"
      [] r.status \in (200..299) \ {204} ->
            IF MainTypeIsJson(r.ctype) THEN "json" ELSE "bytes"
      [] r.status = 404 -> "NotFound"
      [] r.status \in (400..499) \ {401, 403, 404} -> "ClientError"
      [] r.status \in 500..599 -> "ServerError"
      [] OTHER -> "ValueError"

\* C4: handle maps every status code to the one outcome of its table row:
\* 401 and 403 fail with AuthenticationError (before the 4xx row); 204
\* returns the empty result; any other 200-299 returns the decoded JSON value
\* when the content type's main type is application/json (the value of a
\* body that is JSON; a body that is not has no decoded value, and decoding
\* raises) and the raw bytes otherwise; 404 fails with NotFound, any other
\* 400-499 with ClientError, 500-599 with ServerError, and a code outside
\* 200-599 with the unhandled-status error.
C4_ResponseTable ==
    (IsSome(rep) /\ IsSome(outcome)) =>
        LET r == The(rep)
            o == The(outcome)
            kind == TableKind(r)
        IN  IF kind = "json" /\ ~r.body.json
            THEN o.raised /\ o.kind = "JSONDecodeError"
            ELSE /\ o.kind = kind
                 /\ o.raised = (kind \notin {"None", "json", "bytes"})
                 /\ kind \in {"json", "bytes"} => o.body = r.body
                 /\ kind = "None" => o.body = NoBody
                 /\ kind = "AuthenticationError" =>
                        o.text = "authentication failed"

\* A 403 whose body is a JSON error object: AuthenticationError, not the
\* ClientError of the 4xx row.
C4_Witness ==
    /\ IsSome(rep) /\ The(rep).status = 403
    /\ The(rep).body = Json([error |-> "boom"])
    /\ IsSome(outcome) /\ The(outcome).kind = "AuthenticationError"

\* C5 as claimed: for a 4xx (other than 401/403) or 5xx response the error
\* message is the body's "error" field when the body is JSON and has it, and
\* otherwise exactly "<status> response from <host>", <host> being the host
\* of the client's url as it is now.
C5_ErrorMessage ==
    (/\ IsSome(rep) /\ IsSome(outcome) /\ IsSome(_url)
     /\ The(rep).status \in (400..599) \ {401, 403})
    =>  LET r == The(rep)
        IN  The(outcome).text =
                IF r.body.json /\ "error" \in DOMAIN r.body.obj
                THEN r.body.obj.error
                ELSE ToString(r.status) \o " response from "
                     \o Str(HostOf(The(_url)))

\* The part of C5 that the code keeps: the message of a 4xx response whose
\* body holds no "errors" list.
C5_ClientErrorMessage ==
    (/\ IsSome(rep) /\ IsSome(outcome) /\ IsSome(_url)
     /\ The(rep).status \in (400..499) \ {401, 403}
     /\ ~(The(rep).body.json /\ "errors" \in DOMAIN The(rep).body.obj))
    =>  LET r == The(rep)
        IN  The(outcome).text =
                IF r.body.json /\ "error" \in DOMAIN r.body.obj
                THEN r.body.obj.error
                ELSE ToString(r.status) \o " response from "
                     \o Str(HostOf(The(_url)))

(***************************************************************************)
(* C6: the URL a verb call hands to the transport.                         *)
(***************************************************************************)
\* The requests of the call that are not exchanges.
OwnRequests == {i \in 1..Len(wire) : ~IsExchange(wire[i])}

RECURSIVE StripTrailingSlashes(_)
StripTrailingSlashes(p) ==
    IF p # <<>> /\ p[Len(p)] = "/"
    THEN StripTrailingSlashes(SubSeq(p, 1, Len(p) - 1)) ELSE p

RECURSIVE EachAfterSlash(_)
EachAfterSlash(segs) ==
    IF segs = <<>> THEN <<>>
    ELSE <<"/">> \o Head(segs) \o EachAfterSlash(Tail(segs))

\* C6 as claimed: the URL handed to the transport is
\* <base>/v1/<segments joined by '/'>, also when a segment begins with '/'
\* and when the base URL has a path.
C6_BaseThenV1 ==
    (IsSome(call) /\ IsSome(_url)) =>
        \A i \in OwnRequests :
            wire[i].url =
                Origin
                \o Str(StripTrailingSlashes(The(_url).path))
                \o "/v1"
                \o Str(EachAfterSlash(The(call).endpoint))

\* C6, amended: the URL handed to the transport has the base URL's scheme
\* and authority and, in place of the base URL's path, which is discarded:
\* /v1 with the caller's segments appended, '/'-separated, when no segment
\* begins with '/'; and when one does, the last such segment followed by the
\* segments after it, without the /v1 prefix.
C6_RootedEndpoint ==
    (IsSome(call) /\ IsSome(_url)) =>
        \A i \in OwnRequests :
            LET segs == The(call).endpoint
                path == IF AbsoluteAt(segs) = {}
                        THEN AppendedSlashSeparated(<<"/">> \o S_v1, segs)
                        ELSE AppendedSlashSeparated(
                                 segs[MaxOf(AbsoluteAt(segs))],
                                 SubSeq(segs, MaxOf(AbsoluteAt(segs)) + 1,
                                        Len(segs)))
            IN  /\ wire[i].path = path
                /\ wire[i].url = Origin \o Str(path)

\* A call on a base URL with a path, with a relative and then an absolute
\* segment: both the base path and /v1 are gone.
C6_Witness ==
    /\ IsSome(call) /\ IsSome(_url)
    /\ The(_url).path = <<"/", "a">>
    /\ The(call).endpoint = <<<<"a">>, <<"/", "a">>>>
    /\ pc = "idle" /\ Len(wire) = 2
    /\ wire[2].url = "https://example.com/a"

(***************************************************************************)
(* C7: the scheme derived for the host.                                    *)
(***************************************************************************)
\* The host with any :port removed.
HostName == LET h == HostOf(The(_url))
            IN  IF ":" \in Range(h) THEN SubSeq(h, 1, IndexOf(h, ":") - 1)
                ELSE h

Digits == {"0", "1", "2", "3", "4", "5", "6", "7", "8", "9"}

\* A 127.0.0.1-style address: four numeric labels, the first of them 127.
IsLoopbackAddress(name) ==
    LET labels == Split(name, ".")
    IN  /\ Len(labels) = 4
        /\ labels[1] = <<"1", "2", "7">>
        /\ \A i \in 1..4 : labels[i] # <<>> /\ Range(labels[i]) \subseteq Digits

\* C7 as claimed: the scheme is http exactly when the host without its port
\* is localhost, a 127.0.0.1-style loopback address, or ends in .local; and
\* https for every other host.
C7_SchemeWithLoopback ==
    IsSome(_prefix) =>
        /\ The(_prefix) \in {"http", "https"}
        /\ The(_prefix) = "http" <=>
              \/ HostName = S_localhost
              \/ IsLoopbackAddress(HostName)
              \/ EndsWith(HostName, S_dot_local)

\* C7, amended: the scheme is http exactly when the host without its port
\* is localhost or ends in .local, and https for every other host (a
\* 127.0.0.1-style address among them).
C7_SchemeOfLocalNames ==
    IsSome(_prefix) =>
        /\ The(_prefix) \in {"http", "https"}
        /\ The(_prefix) = "http" <=>
              \/ HostName = S_localhost
              \/ EndsWith(HostName, S_dot_local)

\* http derived for a .local host that carries a port.
C7_Witness ==
    /\ IsSome(_url) /\ The(_url).netloc = <<"e", "x", "a", "m", "p", "l", "e", ".", "l", "o", "c", "a", "l", ":", "8", "0", "0", "0">>
    /\ _prefix = Some("http")

(***************************************************************************)
(* C11: a verb call whose exchange fails.                                  *)
(***************************************************************************)
\* The last verb call required authentication, found no usable access token
\* in the slot, and is over without an exchange that returned both tokens:
\* _authenticate or _reauthenticate raised, before or after its post.
ExchangeFailed ==
    /\ pc = "idle"
    /\ IsSome(call) /\ The(call).require_authentication
    /\ IsSome(_url)
    /\ ~Authenticated(creds0)
    /\ ~ExchangeSucceeded

\* The slot, the transport and the caller after a failed exchange.
FailedExchangeFrame ==
    ExchangeFailed =>
        /\ _creds = creds0
        /\ rep = Nothing
        /\ \A i \in 1..Len(wire) : IsExchange(wire[i])
        /\ Len(wire) = (IF IsSome(xrep) THEN 1 ELSE 0)
        /\ IsSome(outcome) /\ The(outcome).raised
        /\ xrep = Nothing =>
              /\ ~Refreshable(creds0)
              /\ client_id = Nothing \/ client_secret = Nothing
              /\ outcome = Some(Raise("AuthenticationError",
                                      "no client id or secret specified"))
        /\ IsSome(xrep) =>
              LET mapped == handle(The(xrep), _host, _url).out
              IN  IF mapped.raised
                  THEN outcome = Some(mapped)
                  ELSE The(outcome).kind \in {"TypeError", "KeyError"}

\* The verb call that follows a failed exchange, when it requires
\* authentication, makes the same attempt: it fails the same precondition,
\* or hands the same exchange request to the transport.
ExchangeAttemptedAgain ==
    (ExchangeFailed /\ IsSome(call') /\ The(call').require_authentication) =>
        IF IsSome(xrep)
        THEN pc' = "exchange" /\ wire' = <<wire[1]>> /\ _creds' = _creds
        ELSE pc' = "idle" /\ wire' = <<>> /\ outcome' = outcome
                          /\ _creds' = _creds

\* C11: when the authenticate or reauthenticate exchange of a verb call
\* fails (its precondition fails, or its response maps to an error), the
\* credentials slot holds what it held before the call, the request itself
\* is never handed to the transport, the caller receives the exchange's
\* error, and the next call that requires authentication attempts the
\* exchange again.
C11_FailedExchange ==
    [][FailedExchangeFrame' /\ ExchangeAttemptedAgain]_vars

\* A slot holding only a refresh token, after a reauthenticate exchange
\* that was answered 401.
C11_Witness ==
    /\ ExchangeFailed
    /\ creds0 = Some(Credentials(Nothing, Some("refresh")))
    /\ _creds = creds0
    /\ Rejected(xrep)
    /\ Len(wire) = 1 /\ wire[1].json = RefreshJson("refresh")

====
